---- MODULE Spec2Model ----
(***************************************************************************)
(* Model of the dictionary API (src/main.py) and of its storage gateway    *)
(* (src/definitions_repository.py).                                        *)
(*                                                                         *)
(* Strings are sequences of one-letter strings, so that LOWER() and LIKE   *)
(* are computed and not assumed.  Optional[str] ids are naturals with 0    *)
(* for None, Optional[datetime] likewise; an Optional[Definition] is a     *)
(* sequence of length 0 (None) or 1.                                       *)
(*                                                                         *)
(* The container is a sequence of items in the order query_items iterates  *)
(* them.  That order is the store's, not the program's: a new item may     *)
(* take any position, and the other items keep their relative order.       *)
(***************************************************************************)
EXTENDS Integers, Sequences, FiniteSets, TLC

VARIABLES
    store,      \* the container: sequence of Definition items
    nextId,     \* number of uuid4() values drawn so far, plus one
    clock,      \* datetime.utcnow(): later at every call
    req,        \* per request slot: the handler's position and its locals
    last,       \* the HTTP response sent most recently by a CRUD handler
    page,       \* the HTTP response sent most recently by a paged handler
    pager,      \* a client that pages through GET /definitions
    rnd         \* one call of get_random_definition: position and locals

vars == <<store, nextId, clock, req, last, page, pager, rnd>>

-----------------------------------------------------------------------------
(* Bounds *)

MaxId == 2          \* uuid4() is drawn at most this many times
MaxReq == 2         \* request handlers in flight at once
MaxStore == 2       \* items of the stores the paged queries are run on

(* Program constants *)

max_page_size == 50         \* self.max_page_size
QueryPageSizeLe == 50       \* Query(..., le=50)

None == "None"

-----------------------------------------------------------------------------
(* Strings *)

LowerChar(c) ==
    CASE c = "A" -> "a"
      [] c = "B" -> "b"
      [] c = "N" -> "n"
      [] c = "T" -> "t"
      [] c = "U" -> "u"
      [] c = "V" -> "v"
      [] c = "Y" -> "y"
      [] OTHER -> c

\* str.lower() and the query's LOWER()
Lower(s) == [i \in 1..Len(s) |-> LowerChar(s[i])]

\* s LIKE pattern: in the pattern % stands for any run of characters and
\* _ for any one character; every other character stands for itself
RECURSIVE LikeMatch(_, _)
LikeMatch(s, pattern) ==
    IF pattern = <<>>
    THEN s = <<>>
    ELSE IF Head(pattern) = "%"
    THEN \/ LikeMatch(s, Tail(pattern))
         \/ s # <<>> /\ LikeMatch(Tail(s), pattern)
    ELSE /\ s # <<>>
         /\ Head(pattern) \in {"_", Head(s)}
         /\ LikeMatch(Tail(s), Tail(pattern))

\* field LIKE @search, @search = f"%{term}%": the term is put between the
\* two % as it is, its own % and _ are not escaped
Like(s, term) == LikeMatch(s, <<"%">> \o term \o <<"%">>)

Words == {<<"a">>, <<"A">>, <<"b">>}
Tags == {<<"T">>, <<"u">>}
Authors == {<<"n">>, <<"m">>}

-----------------------------------------------------------------------------
(* Definition records *)

Definition(id, word, content, tag, abbreviation, name, created_date) ==
    [id |-> id, word |-> word, content |-> content, tag |-> tag,
     abbreviation |-> abbreviation, author |-> [name |-> name],
     created_date |-> created_date]

\* Request bodies of POST /definitions: id and created_date left out
CreateBodies ==
    {Definition(0, w, <<"x">>, <<"t">>, <<"v">>, <<"n">>, 0) : w \in Words}

\* Request bodies of PUT /definitions/{word}: the client chooses the id,
\* and sends a content no create has sent
UpdateBodies ==
    {Definition(i, w, <<"y">>, <<"t">>, <<"v">>, <<"n">>, 0) :
        i \in 0..MaxId, w \in Words}

NoDefinition == Definition(0, <<>>, <<>>, <<>>, <<>>, <<>>, 0)

-----------------------------------------------------------------------------
(* The container's primitives as the repository calls them *)

InsertAt(s, i, e) == SubSeq(s, 1, i - 1) \o <<e>> \o SubSeq(s, i, Len(s))

\* a delete that would take the items after the i-th with it
RemoveFrom(s, i) == SubSeq(s, 1, i - 1)

RemoveAt(s, i) == SubSeq(s, 1, i - 1) \o SubSeq(s, i + 1, Len(s))

\* positions of the item with this id in the partition of this word
ItemAt(s, id, partition_key) ==
    {i \in 1..Len(s) : s[i].id = id /\ s[i].word = partition_key}

-----------------------------------------------------------------------------
(* DefinitionsRepository *)

WordMatchesCaseSensitive(d, word) == d.word = word

\* WHERE LOWER(d.word) = @word, @word = word.lower()
WordMatches(d, word) == Lower(d.word) = Lower(word)

get_definition_by_word(s, word) ==
    LET results == SelectSeq(s, LAMBDA d : WordMatches(d, word))
    IN  IF results # <<>> THEN <<results[1]>> ELSE <<>>

\* WHERE LOWER(d.tag) = @tag, @tag = tag.lower()
TagMatches(d, tag) == Lower(d.tag) = Lower(tag)

\* WHERE LOWER(field) LIKE @search OR ..., @search = %search_term.lower()%
SearchMatches(d, search_term) ==
    \/ Like(Lower(d.word), Lower(search_term))
    \/ Like(Lower(d.content), Lower(search_term))
    \/ Like(Lower(d.author.name), Lower(search_term))
    \/ Like(Lower(d.tag), Lower(search_term))
    \/ Like(Lower(d.abbreviation), Lower(search_term))

Min(a, b) == IF a <= b THEN a ELSE b

\* for item in query_iterator: results.append(item);
\*                             if len(results) >= page_size: break
RECURSIVE PagingLoop(_, _, _)
PagingLoop(items, results, page_size) ==
    IF items = <<>>
    THEN results
    ELSE LET appended == Append(results, Head(items))
         IN  IF Len(appended) >= page_size
             THEN appended
             ELSE PagingLoop(Tail(items), appended, page_size)

\* The continuation token query_items is called with.  The options dict
\* that holds the caller's token is built and never passed on.
QueryItemsToken(continuation_token) == None

\* getattr(query_iterator, '_continuation_token', None): the iterator that
\* query_items returns has no attribute of that name
IteratorContinuationToken(remaining) == None

\* _query_with_paging over the items the query selects, in store order
query_with_paging(selected, page_size, continuation_token) ==
    LET results == PagingLoop(selected, <<>>, page_size)
    IN  [results |-> results,
         token |-> IteratorContinuationToken(Len(selected) - Len(results)),
         store_token |-> QueryItemsToken(continuation_token)]

get_all_definitions(s, page_size, continuation_token) ==
    query_with_paging(s, Min(page_size, max_page_size), continuation_token)

get_definitions_by_tag(s, tag, page_size, continuation_token) ==
    query_with_paging(SelectSeq(s, LAMBDA d : TagMatches(d, tag)),
                      page_size, continuation_token)

get_definitions_by_search(s, search_term, page_size, continuation_token) ==
    query_with_paging(SelectSeq(s, LAMBDA d : SearchMatches(d, search_term)),
                      page_size, continuation_token)

\* add_definition: the item as stored, with the server's id and date
add_definition(definition, id, created_date) ==
    [definition EXCEPT !.id = id, !.created_date = created_date]

-----------------------------------------------------------------------------
(* Request slots *)

Reqs == 1..MaxReq

IdleReq == [pc |-> "idle", word |-> <<>>, definition |-> NoDefinition]

\* op: the endpoint; word: its path or body word; status: the HTTP status;
\* definition: the handler's definition local when it answered
Response(op, word, status, definition) ==
    [op |-> op, word |-> word, status |-> status, definition |-> definition]

NoResponse == Response("none", <<>>, 0, NoDefinition)

NoPage ==
    [op |-> "none", arg |-> <<>>, page_size |-> 0, continuation_token |-> None,
     status |-> 0, data |-> <<>>, next_token |-> None, store_token |-> None]

IdlePager == [state |-> "idle", page_size |-> 0, token |-> None, pages |-> <<>>]

\* create handlers that passed their lookup and have not drawn their id yet
PendingCreates == Cardinality({r \in Reqs : req[r].pc = "create_add"})

-----------------------------------------------------------------------------
(* get_random_definition: a count query, then an offset query *)

\* SELECT VALUE COUNT(1) FROM c
get_definition_count(s) == Len(s)

\* a draw that leaves out the upper end, as random.randrange(a, b) does
RandRange(a, b) == a..(b - 1)

\* random.randint(a, b): any integer from a to b, both included
RandInt(a, b) == a..b

\* an offset query that would give the last item for an offset past the end
OffsetLimit1Clamped(s, skip) ==
    IF s = <<>> THEN <<>> ELSE <<s[Min(skip + 1, Len(s))]>>

\* SELECT * FROM c OFFSET skip LIMIT 1, then
\* Definition(**results[0]) if results else None
OffsetLimit1(s, skip) == IF skip + 1 <= Len(s) THEN <<s[skip + 1]>> ELSE <<>>

Ids(s) == {s[i].id : i \in 1..Len(s)}

\* the call and what the store did since its count query: ids of the items
\* created and deleted, and whether the store held an item at every moment
IdleRandom ==
    [pc |-> "idle", count |-> 0, skip |-> 0, result |-> <<>>,
     added |-> {}, removed |-> {}, nonempty |-> TRUE]

\* a write of another caller, seen from the call between its two queries
Observed(call, s, t) ==
    IF call.pc = "counted"
    THEN [call EXCEPT !.added = @ \cup (Ids(t) \ Ids(s)),
                      !.removed = @ \cup (Ids(s) \ Ids(t)),
                      !.nonempty = @ /\ t # <<>>]
    ELSE call

\* count = await self.get_definition_count(); if count == 0: return None
random_count ==
    /\ rnd.pc = "idle"
    /\ LET count == get_definition_count(store)
       IN  rnd' = [rnd EXCEPT !.pc = IF count = 0 THEN "done" ELSE "counted",
                              !.count = count,
                              !.nonempty = store # <<>>]
    /\ UNCHANGED <<store, nextId, clock, req, last, page, pager>>

\* skip = random.randint(0, count - 1), the offset query and the return
random_offset ==
    /\ rnd.pc = "counted"
    /\ \E skip \in RandInt(0, rnd.count - 1) :
          rnd' = [rnd EXCEPT !.pc = "done",
                             !.skip = skip,
                             !.result = OffsetLimit1(store, skip)]
    /\ UNCHANGED <<store, nextId, clock, req, last, page, pager>>

\* another caller of the repository creates an item
repository_add_definition(definition) ==
    /\ nextId <= MaxId
    /\ \E i \in 1..(Len(store) + 1) :
          store' = InsertAt(store, i, add_definition(definition, nextId, clock))
    /\ nextId' = nextId + 1
    /\ clock' = clock + 1
    /\ rnd' = Observed(rnd, store, store')
    /\ UNCHANGED <<req, last, page, pager>>

\* another caller of the repository deletes an item it has read
repository_delete_definition(definition) ==
    /\ LET at == ItemAt(store, definition.id, definition.word)
       IN  /\ at # {}
           /\ store' = RemoveAt(store, CHOOSE i \in at : TRUE)
    /\ rnd' = Observed(rnd, store, store')
    /\ UNCHANGED <<nextId, clock, req, last, page, pager>>

-----------------------------------------------------------------------------
(* POST /definitions *)

create_definition_lookup(r, definition) ==
    /\ req[r].pc = "idle"
    /\ LET existing == get_definition_by_word(store, definition.word)
       IN  IF existing # <<>>
           THEN /\ last' = Response("create", definition.word, 409, NoDefinition)
                /\ UNCHANGED req
           ELSE /\ nextId + PendingCreates <= MaxId
                /\ req' = [req EXCEPT ![r] = [pc |-> "create_add",
                                              word |-> definition.word,
                                              definition |-> definition]]
                /\ UNCHANGED last
    /\ UNCHANGED <<store, nextId, clock, page, pager, rnd>>

create_definition_add(r) ==
    /\ req[r].pc = "create_add"
    /\ \E i \in 1..(Len(store) + 1) :
          LET definition == add_definition(req[r].definition, nextId, clock)
          IN  /\ store' = InsertAt(store, i, definition)
              /\ last' = Response("create", req[r].word, 201, definition)
    /\ clock' = clock + 1
    /\ nextId' = nextId + 1
    /\ req' = [req EXCEPT ![r] = IdleReq]
    /\ UNCHANGED <<page, pager, rnd>>

-----------------------------------------------------------------------------
(* PUT /definitions/{word} *)

update_definition_lookup(r, word, definition) ==
    /\ req[r].pc = "idle"
    /\ LET existing == get_definition_by_word(store, word)
       IN  IF existing = <<>>
           THEN /\ last' = Response("update", word, 404, NoDefinition)
                /\ UNCHANGED req
           ELSE /\ req' = [req EXCEPT ![r] = [pc |-> "update_replace",
                                              word |-> word,
                                              definition |-> definition]]
                /\ UNCHANGED last
    /\ UNCHANGED <<store, nextId, clock, page, pager, rnd>>

\* replace_item(definition.id, definition.dict(), partition_key=definition.word);
\* the container raises when it holds no such item, and the handler does
\* not catch it: the request ends with 500
update_definition_replace(r) ==
    /\ req[r].pc = "update_replace"
    /\ LET definition == req[r].definition
           at == ItemAt(store, definition.id, definition.word)
       IN  IF at = {}
           THEN /\ last' = Response("update", req[r].word, 500, NoDefinition)
                /\ UNCHANGED store
           ELSE /\ store' = [i \in 1..Len(store) |->
                                IF i \in at THEN definition ELSE store[i]]
                /\ last' = Response("update", req[r].word, 200, definition)
    /\ req' = [req EXCEPT ![r] = IdleReq]
    /\ UNCHANGED <<nextId, clock, page, pager, rnd>>

-----------------------------------------------------------------------------
(* DELETE /definitions/{word} *)

delete_definition_lookup(r, word) ==
    /\ req[r].pc = "idle"
    /\ LET definition == get_definition_by_word(store, word)
       IN  IF definition = <<>>
           THEN /\ last' = Response("delete", word, 404, NoDefinition)
                /\ UNCHANGED req
           ELSE /\ req' = [req EXCEPT ![r] = [pc |-> "delete_delete",
                                              word |-> word,
                                              definition |-> definition[1]]]
                /\ UNCHANGED last
    /\ UNCHANGED <<store, nextId, clock, page, pager, rnd>>

\* delete_item(definition.id, partition_key=definition.word); raises, and
\* the request ends with 500, when the item is no longer there
delete_definition_delete(r) ==
    /\ req[r].pc = "delete_delete"
    /\ LET definition == req[r].definition
           at == ItemAt(store, definition.id, definition.word)
       IN  IF at = {}
           THEN /\ last' = Response("delete", req[r].word, 500, NoDefinition)
                /\ UNCHANGED store
           ELSE /\ store' = RemoveAt(store, CHOOSE i \in at : TRUE)
                /\ last' = Response("delete", req[r].word, 200, NoDefinition)
    /\ req' = [req EXCEPT ![r] = IdleReq]
    /\ UNCHANGED <<nextId, clock, page, pager, rnd>>

-----------------------------------------------------------------------------
(* GET /definitions/word/{word} *)

route_get_definition_by_word(word) ==
    /\ LET definition == get_definition_by_word(store, word)
       IN  IF definition = <<>>
           THEN last' = Response("get", word, 404, NoDefinition)
           ELSE last' = Response("get", word, 200, definition[1])
    /\ UNCHANGED <<store, nextId, clock, req, page, pager, rnd>>

-----------------------------------------------------------------------------
(* The paged endpoints *)

PageSizes == {-1, 0, 1, 2, 51}
Tokens == {None, "token"}
TagArgs == {<<"t">>, <<"U">>, <<"z">>}
SearchArgs ==
    {<<"a">>, <<"N">>, <<"z">>, <<"Y">>, <<"t">>, <<"V">>, <<"x", "Y">>, <<"_">>}

PagedStatusAlwaysOk(definitions) == 200

\* if not definitions: raise HTTPException(status_code=404, ...)
PagedStatus(definitions) == IF definitions = <<>> THEN 404 ELSE 200

\* the response of a paged handler to what the repository returned
PagedResponse(op, arg, page_size, continuation_token, got) ==
    [op |-> op, arg |-> arg, page_size |-> page_size,
     continuation_token |-> continuation_token,
     status |-> PagedStatus(got.results),
     data |-> got.results,
     next_token |-> got.token,
     store_token |-> got.store_token]

\* Query(..., le=50): the request is refused before the handler runs
ValidationError(op, arg, page_size, continuation_token) ==
    [op |-> op, arg |-> arg, page_size |-> page_size,
     continuation_token |-> continuation_token,
     status |-> 422, data |-> <<>>, next_token |-> None, store_token |-> None]

GetAllResponse(s, page_size, continuation_token) ==
    IF page_size > QueryPageSizeLe
    THEN ValidationError("all", <<>>, page_size, continuation_token)
    ELSE PagedResponse("all", <<>>, page_size, continuation_token,
                       get_all_definitions(s, page_size, continuation_token))

route_get_all_definitions(page_size, continuation_token) ==
    /\ pager.state = "idle"
    /\ page' = GetAllResponse(store, page_size, continuation_token)
    /\ UNCHANGED <<store, nextId, clock, req, last, pager, rnd>>

route_get_definitions_by_tag(tag, page_size, continuation_token) ==
    /\ pager.state = "idle"
    /\ page' =
          IF page_size > QueryPageSizeLe
          THEN ValidationError("tag", tag, page_size, continuation_token)
          ELSE PagedResponse("tag", tag, page_size, continuation_token,
                  get_definitions_by_tag(store, tag, page_size,
                                         continuation_token))
    /\ UNCHANGED <<store, nextId, clock, req, last, pager, rnd>>

search_definitions(term, page_size, continuation_token) ==
    /\ pager.state = "idle"
    /\ page' =
          IF page_size > QueryPageSizeLe
          THEN ValidationError("search", term, page_size, continuation_token)
          ELSE PagedResponse("search", term, page_size, continuation_token,
                  get_definitions_by_search(store, term, page_size,
                                            continuation_token))
    /\ UNCHANGED <<store, nextId, clock, req, last, pager, rnd>>

-----------------------------------------------------------------------------
(* A client that pages through GET /definitions with a fixed page size,   *)
(* sending back the token of the previous response until none comes back. *)
(* The handlers are single steps that only read the store, so the paging   *)
(* client and the single requests are followed one at a time.              *)

PagerSizes == {1, 2}

pager_start(page_size) ==
    /\ pager.state = "idle"
    /\ page = NoPage
    /\ pager' = [state |-> "paging", page_size |-> page_size,
                 token |-> None, pages |-> <<>>]
    /\ UNCHANGED <<store, nextId, clock, req, last, page, rnd>>

pager_call ==
    /\ pager.state = "paging"
    /\ LET response == GetAllResponse(store, pager.page_size, pager.token)
       IN  pager' = [pager EXCEPT
                        !.pages = @ \o response.data,
                        !.token = response.next_token,
                        !.state = IF response.next_token = None
                                  THEN "done" ELSE "paging"]
    /\ UNCHANGED <<store, nextId, clock, req, last, page, rnd>>

-----------------------------------------------------------------------------
Init ==
    /\ store = <<>>
    /\ nextId = 1
    /\ clock = 1
    /\ req = [r \in Reqs |-> IdleReq]
    /\ last = NoResponse
    /\ page = NoPage
    /\ pager = IdlePager
    /\ rnd = IdleRandom

Next ==
    \/ \E r \in Reqs, d \in CreateBodies : create_definition_lookup(r, d)
    \/ \E r \in Reqs : create_definition_add(r)
    \/ \E r \in Reqs, w \in Words, d \in UpdateBodies :
          update_definition_lookup(r, w, d)
    \/ \E r \in Reqs : update_definition_replace(r)
    \/ \E r \in Reqs, w \in Words : delete_definition_lookup(r, w)
    \/ \E r \in Reqs : delete_definition_delete(r)
    \/ \E w \in Words : route_get_definition_by_word(w)

Spec == Init /\ [][Next]_vars

-----------------------------------------------------------------------------
(* The traffic that decides which words the store holds: POST and DELETE.  *)
(* An update replaces an item under its own (id, word), so it changes no   *)
(* word of the store.                                                       *)

NextCreate ==
    \/ \E r \in Reqs, d \in CreateBodies : create_definition_lookup(r, d)
    \/ \E r \in Reqs : create_definition_add(r)
    \/ \E r \in Reqs, w \in Words : delete_definition_lookup(r, w)
    \/ \E r \in Reqs : delete_definition_delete(r)

SpecCreate == Init /\ [][NextCreate]_vars

-----------------------------------------------------------------------------
(* get_random_definition is a method of the repository with no route: one *)
(* call of it runs among calls of the methods that create and delete items. *)

NextRandom ==
    \/ \E d \in CreateBodies : repository_add_definition(d)
    \/ \E i \in 1..Len(store) : repository_delete_definition(store[i])
    \/ random_count
    \/ random_offset

SpecRandom == Init /\ [][NextRandom]_vars

-----------------------------------------------------------------------------
(* The paged queries read the store and never write it: they are checked  *)
(* from every store of up to MaxStore items, ids and dates as the creates *)
(* that filled it assigned them.                                          *)

PagingItems ==
    {Definition(0, w, <<"x", "y">>, t, <<"v">>, n, 0) :
        w \in {<<"A">>, <<"b">>}, t \in Tags, n \in Authors}

PagingStores ==
    UNION {{[i \in 1..n |-> add_definition(f[i], i, i)] :
                f \in [1..n -> PagingItems]} : n \in 0..MaxStore}

InitPaging ==
    /\ store \in PagingStores
    /\ nextId = Len(store) + 1
    /\ clock = Len(store) + 1
    /\ req = [r \in Reqs |-> IdleReq]
    /\ last = NoResponse
    /\ page = NoPage
    /\ pager = IdlePager
    /\ rnd = IdleRandom

NextPaging ==
    \/ \E n \in PageSizes, t \in Tokens : route_get_all_definitions(n, t)
    \/ \E a \in TagArgs, n \in PageSizes, t \in Tokens :
          route_get_definitions_by_tag(a, n, t)
    \/ \E a \in SearchArgs, n \in PageSizes, t \in Tokens :
          search_definitions(a, n, t)
    \/ \E n \in PagerSizes : pager_start(n)
    \/ pager_call

SpecPaging == InitPaging /\ [][NextPaging]_vars

-----------------------------------------------------------------------------
(* Vocabulary of the properties *)

CasePairs ==
    {{"a", "A"}, {"b", "B"}, {"n", "N"}, {"t", "T"}, {"u", "U"}, {"v", "V"},
     {"y", "Y"}}

SameLetter(c1, c2) == c1 = c2 \/ {c1, c2} \in CasePairs

\* the two words are equal ignoring case
EqualsIgnoreCase(a, b) ==
    /\ Len(a) = Len(b)
    /\ \A i \in 1..Len(a) : SameLetter(a[i], b[i])

\* every item of s occurs exactly once in pages, and nothing else does
ExactlyOnce(pages, s) ==
    /\ Len(pages) = Len(s)
    /\ \A i \in 1..Len(s) :
          Cardinality({j \in 1..Len(pages) : pages[j] = s[i]}) = 1

\* the items of s that the query of a paged endpoint selects
Matching(s, op, arg) ==
    CASE op = "tag" -> SelectSeq(s, LAMBDA d : TagMatches(d, arg))
      [] op = "search" -> SelectSeq(s, LAMBDA d : SearchMatches(d, arg))
      [] OTHER -> s

\* term occurs in field as a run of consecutive characters, ignoring case
SubstringIgnoreCase(term, field) ==
    \E i \in 0..(Len(field) - Len(term)) :
        EqualsIgnoreCase(SubSeq(field, i + 1, i + Len(term)), term)

\* term is such a substring of one of the five fields that search reads
TermInRecord(term, d) ==
    \/ SubstringIgnoreCase(term, d.word)
    \/ SubstringIgnoreCase(term, d.content)
    \/ SubstringIgnoreCase(term, d.author.name)
    \/ SubstringIgnoreCase(term, d.tag)
    \/ SubstringIgnoreCase(term, d.abbreviation)

\* s is the beginning of t
IsPrefix(s, t) == Len(s) <= Len(t) /\ s = SubSeq(t, 1, Len(s))

\* the paged handler ran (the request passed validation)
Answered == page.status \in {200, 404}

\* no item of the store has this word, ignoring case
Unresolved(word) ==
    \A i \in 1..Len(store) : ~EqualsIgnoreCase(store[i].word, word)

-----------------------------------------------------------------------------
(* C1: paging through GET /definitions with a fixed page size >= 1, passing *)
(* each returned token to the next call until none is returned, yields      *)
(* every stored record exactly once.                                        *)
C1_PagingYieldsEveryRecordOnce ==
    pager.state = "done" => ExactlyOnce(pager.pages, store)

(* C2: in every reachable state the store holds at most one Definition per *)
(* case-insensitive word.                                                   *)
C2_OneDefinitionPerWord ==
    \A i, j \in 1..Len(store) :
        EqualsIgnoreCase(store[i].word, store[j].word) => i = j

(* C3: a create whose word equals, ignoring case, the word of a stored      *)
(* record is answered 409 at once and changes neither the store nor any     *)
(* handler's state.                                                         *)
C3_DuplicateCreateRejected ==
    [][\A r \in Reqs, d \in CreateBodies :
          (create_definition_lookup(r, d) /\ ~Unresolved(d.word))
          => /\ last' = Response("create", d.word, 409, NoDefinition)
             /\ store' = store
             /\ req' = req]_vars

\* a create was refused for a word stored in another case
C3_Witness ==
    /\ last.op = "create"
    /\ last.status = 409
    /\ \E i \in 1..Len(store) :
          /\ store[i].word # last.word
          /\ EqualsIgnoreCase(store[i].word, last.word)

(* C4: a get-by-word for any case variant of w that directly follows the    *)
(* successful create of w returns the record that create stored.            *)
C4_CreateThenGetReturnsRecord ==
    [][\A v \in Words :
          (/\ last.op = "create"
           /\ last.status = 201
           /\ EqualsIgnoreCase(v, last.word)
           /\ route_get_definition_by_word(v))
          => (last'.status = 200 /\ last'.definition = last.definition)]_vars

(* C5: a get-by-word for w that directly follows a successful delete of w   *)
(* (in any case) is answered 404.                                           *)
C5_DeleteThenGetNotFound ==
    [][\A v \in Words :
          (/\ last.op = "delete"
           /\ last.status = 200
           /\ EqualsIgnoreCase(v, last.word)
           /\ route_get_definition_by_word(v))
          => last'.status = 404]_vars

(* C6: an update whose definition's word resolves to no stored record when  *)
(* it is answered is answered 404 and leaves the store unchanged, whatever  *)
(* the path word and the definition's id.                                   *)
C6_UpdateUnknownWordNotFound ==
    [][\A r \in Reqs :
          /\ \A w \in Words, d \in UpdateBodies :
                (/\ update_definition_lookup(r, w, d)
                 /\ req' = req
                 /\ Unresolved(d.word))
                => (last'.status = 404 /\ store' = store)
          /\ (update_definition_replace(r) /\ Unresolved(req[r].definition.word))
                => (last'.status = 404 /\ store' = store)]_vars

(* C7: a get-by-word for the word of a successful update that directly      *)
(* follows it returns a record with the update's content.                   *)
C7_UpdateThenGetNewContent ==
    [][(/\ last.op = "update"
        /\ last.status = 200
        /\ route_get_definition_by_word(last.word))
       => (/\ last'.status = 200
           /\ last'.definition.content = last.definition.content)]_vars

(* C8: a page of list-all, list-by-tag or search holds at most             *)
(* min(page size, 50) records.                                              *)
C8_PageWithinClampedSize ==
    Answered => Len(page.data) <= Min(page.page_size, max_page_size)

(* C9: a paged query returns a token exactly when matching records remain  *)
(* beyond the returned page, and hands the caller's token unchanged to the  *)
(* store query.                                                             *)
C9_TokenIffMoreAndPassedOn ==
    Answered =>
        /\ (page.next_token # None) <=>
              (Len(Matching(store, page.op, page.arg)) > Len(page.data))
        /\ page.store_token = page.continuation_token

(* C10: a paged request whose query selects no record is answered 404, and *)
(* a 200 answer carries at least one record.                                *)
C10_EmptyPageIsNotFound ==
    Answered =>
        /\ Matching(store, page.op, page.arg) = <<>> => page.status = 404
        /\ page.status = 200 => Len(page.data) >= 1

\* list-by-tag over a store that is not empty found nothing and answered 404
C10_Witness ==
    /\ page.op = "tag"
    /\ page.status = 404
    /\ store # <<>>

(* C11: search returns, up to the size of its first page, the records of   *)
(* which the term is a case-insensitive substring of word, content,         *)
(* author.name, tag or abbreviation, and no other record.                   *)
C11_SearchIsSubstringMatch ==
    (Answered /\ page.op = "search") =>
        LET wanted == SelectSeq(store, LAMBDA d : TermInRecord(page.arg, d))
        IN  /\ IsPrefix(page.data, wanted)
            /\ wanted # <<>> => page.data # <<>>
            /\ page.page_size >= Len(wanted) => page.data = wanted

(* C12: with no record created or deleted between its count query and its *)
(* offset query, random-pick returns absent exactly when the store is       *)
(* empty; otherwise the offset is drawn from 0..count-1, the record at that *)
(* offset is returned, and the possible results are exactly the stored      *)
(* records.                                                                 *)
Undisturbed == rnd.added = {} /\ rnd.removed = {}

Stored == {<<store[i]>> : i \in 1..Len(store)}

C12_CountStep ==
    random_count =>
        /\ rnd'.pc = "done" <=> store = <<>>
        /\ rnd'.pc = "done" => rnd'.result = <<>>

C12_OffsetStep ==
    (random_offset /\ Undisturbed) =>
        /\ rnd'.skip \in 0..(rnd.count - 1)
        /\ rnd'.result = <<store[rnd'.skip + 1]>>
        /\ rnd'.result \in Stored

C12_EveryRecordPossible ==
    (rnd.pc = "counted" /\ Undisturbed) =>
        /\ store # <<>>
        /\ {OffsetLimit1(store, k) : k \in RandInt(0, rnd.count - 1)} = Stored

C12_RandomPickUndisturbed ==
    /\ [][C12_CountStep /\ C12_OffsetStep]_vars
    /\ []C12_EveryRecordPossible

C12_Witness ==
    /\ rnd.pc = "done"
    /\ Undisturbed
    /\ rnd.count = 2
    /\ rnd.skip = 1
    /\ rnd.result = <<store[2]>>

(* C13: random-pick is not atomic. Once a delete alone has run between     *)
(* the two queries, absent is a possible result although the store held a  *)
(* record at every moment; and once records have been created between the  *)
(* two queries, all of them placed after the counted ones, none of them is *)
(* a possible result.                                                      *)
PossibleResults == {OffsetLimit1(store, k) : k \in RandInt(0, rnd.count - 1)}

CreatedSince == {<<store[i]>> : i \in {j \in 1..Len(store) : store[j].id \in rnd.added}}

C13_RandomPickNotAtomic ==
    rnd.pc = "counted" =>
        /\ (rnd.removed # {} /\ rnd.added = {}) => <<>> \in PossibleResults
        /\ (rnd.removed = {} /\ rnd.added # {}
              /\ \A i \in 1..Len(store) :
                    store[i].id \in rnd.added => i > rnd.count)
            => PossibleResults \cap CreatedSince = {}

C13_Witness ==
    /\ rnd.pc = "done"
    /\ rnd.count > 0
    /\ rnd.nonempty
    /\ store # <<>>
    /\ rnd.removed # {}
    /\ rnd.result = <<>>

(* C14: a successful update leaves the id and the created_date of every   *)
(* stored record, the replaced one included, as create assigned them.       *)
C14_UpdateKeepsIdAndCreatedDate ==
    [][\A r \in Reqs :
          (update_definition_replace(r) /\ last'.status = 200) =>
              /\ Len(store') = Len(store)
              /\ \A i \in 1..Len(store) :
                    /\ store'[i].id = store[i].id
                    /\ store'[i].created_date = store[i].created_date]_vars

(* C15: a successful delete for word w removes exactly one record, the one *)
(* its lookup found, whose word equals w ignoring case and which is         *)
(* addressed by its stored id and stored word; every other record stays as  *)
(* it was, in its place. A delete answered 404, and one that fails, leave   *)
(* the store unchanged.                                                     *)
C15_DeleteStep ==
    \A r \in Reqs :
        delete_definition_delete(r) =>
            IF last'.status = 200
            THEN \E i \in 1..Len(store) :
                    /\ store[i] = req[r].definition
                    /\ EqualsIgnoreCase(store[i].word, req[r].word)
                    /\ Len(store') = Len(store) - 1
                    /\ \A j \in 1..(i - 1) : store'[j] = store[j]
                    /\ \A j \in i..Len(store') : store'[j] = store[j + 1]
            ELSE store' = store

C15_LookupStep ==
    \A r \in Reqs, w \in Words :
        delete_definition_lookup(r, w) =>
            /\ store' = store
            /\ req'[r].pc = "idle" => last'.status = 404
            /\ req'[r].pc = "delete_delete" =>
                  /\ \E i \in 1..Len(store) : store[i] = req'[r].definition
                  /\ EqualsIgnoreCase(req'[r].definition.word, w)

C15_DeleteRemovesOneRecord == [][C15_DeleteStep /\ C15_LookupStep]_vars

C15_Witness ==
    /\ last.op = "delete"
    /\ last.status = 200
    /\ last.word = <<"A">>
    /\ nextId = 3
    /\ Len(store) = 1
    /\ store[1].word = <<"b">>

====
